---- MODULE Spec2Model ----
(***************************************************************************)
(* Model of pin-flake-inputs (nalabelle/renovate-config).                  *)
(*                                                                         *)
(* A JavaScript string is a sequence of atoms.  An atom is a piece of text *)
(* that none of the regular expressions of flakePinning.ts can split:      *)
(* "\n", " ", "=", "{", "}", ";", the double quote, "#", ".", "url",       *)
(* "renovate:", an input name, an owner, a revision, ...  Every regular    *)
(* expression of the source is translated to a matcher over atoms that     *)
(* follows the leftmost / greedy / lazy rules of the JavaScript engine.    *)
(* An optional value (x?: string) is <<>> when undefined and <<s>> when    *)
(* it is the string s.                                                     *)
(***************************************************************************)
EXTENDS Integers, Sequences, FiniteSets, TLC

\* ------------------------------------------------------------------ bounds
MaxSegs == 2
MaxInputs == 2
MaxRuns == 2

\* ------------------------------------------------------------------ atoms
NL == "\n"
SP == " "
Q == "\""
WS == {SP, NL}

None == <<>>
Some(s) == <<s>>
Str(a) == <<a>>
Defined(o) == Len(o) = 1
\* a test for undefined only: "" passes
NotUndefined(o) == Len(o) = 1
\* JavaScript truthiness of an optional string: defined and not ""
Truthy(o) == Len(o) = 1 /\ Len(o[1]) > 0
\* a ?? b
Coalesce(a, b) == IF Defined(a) THEN a ELSE b

Min(S) == CHOOSE x \in S : \A y \in S : x <= y

\* ------------------------------------------------------------------ regex helpers
RECURSIVE SkipWS(_, _)
\* \s* followed by a literal that is not white space: the first position at
\* or after i that holds no white space (Len(t) + 1 at the end of the text)
SkipWS(t, i) == IF i > Len(t) \/ t[i] \notin WS THEN i ELSE SkipWS(t, i + 1)

\* the literal lit (a string passed through escapeRegex) matches at position i
LitAt(t, i, lit) ==
  /\ i >= 1
  /\ i + Len(lit) - 1 <= Len(t)
  /\ \A k \in 1..Len(lit) : t[i + k - 1] = lit[k]

AtomAt(t, i, a) == i >= 1 /\ i <= Len(t) /\ t[i] = a

\* ^ with the m flag
AtLineStart(t, i) == i = 1 \/ t[i - 1] = NL

RECURSIVE EndOfLine(_, _)
\* .*$ with the m flag: the position of the next line terminator
EndOfLine(t, i) == IF i > Len(t) \/ t[i] = NL THEN i ELSE EndOfLine(t, i + 1)

NoMatch == [found |-> FALSE, index |-> 0, text |-> <<>>, indent |-> <<>>]

\* ------------------------------------------------------------------ flake.lock
Rev1 == <<"rev1">>
HttpsUrl == <<"https://", "h/p">>
GitPlusUrl == <<"git+", "https://", "h/p", "?", "shallow=1">>

LockedRec(type, rev, owner, repo, host, url, ref) ==
  [type |-> type, rev |-> rev, owner |-> owner, repo |-> repo,
   host |-> host, url |-> url, ref |-> ref]
OriginalRec(type, ref, url) == [type |-> type, ref |-> ref, url |-> url]
Node(locked, original) == [locked |-> locked, original |-> original]

GithubLocked ==
  LockedRec(Some(Str("github")), Some(Rev1), Some(Str("o")), Some(Str("r")),
            None, None, None)
GitlabLocked(host) ==
  LockedRec(Some(Str("gitlab")), Some(Rev1), Some(Str("o")), Some(Str("r")),
            host, None, Some(Str("main")))
GitLocked ==
  LockedRec(Some(Str("git")), Some(Rev1), None, None, None, Some(HttpsUrl),
            Some(Str("main")))

\* the nodes of flake.lock other than root, by node identifier
Nodes ==
  [gh |-> Node(Some(GithubLocked), Some(OriginalRec(Some(Str("github")), None, None))),
   gh2 |-> Node(Some([GithubLocked EXCEPT !.repo = Some(Str("q"))]), None),
   gl |-> Node(Some(GitlabLocked(Some(Str("gl.example")))), None),
   glNoHost |-> Node(Some(GitlabLocked(None)), None),
   glEmptyHost |-> Node(Some(GitlabLocked(Some(<<>>))), None),
   git |-> Node(Some(GitLocked), Some(OriginalRec(Some(Str("git")), None, Some(GitPlusUrl)))),
   gitPlain |-> Node(Some(GitLocked), Some(OriginalRec(Some(Str("git")), None, None))),
   gitEmptyOrig |-> Node(Some(GitLocked), Some(OriginalRec(Some(Str("git")), None, Some(<<>>)))),
   tarball |-> Node(Some([GitLocked EXCEPT !.type = Some(Str("tarball"))]), None),
   noLocked |-> Node(None, None),
   noRev |-> Node(Some([GithubLocked EXCEPT !.rev = None]), None),
   noOwner |-> Node(Some([GithubLocked EXCEPT !.owner = Some(<<>>)]), None)]

\* further forge nodes: refs, hosts and missing fields
ForgeNodes ==
  [\* github: locked.ref and original.ref differ
   ghRef |-> Node(Some([GithubLocked EXCEPT !.ref = Some(Str("main"))]),
                  Some(OriginalRec(Some(Str("github")), Some(Str("dev")), None))),
   \* github: only locked.ref
   ghLockedRef |-> Node(Some([GithubLocked EXCEPT !.ref = Some(Str("main"))]), None),
   \* github: original.ref is ""
   ghEmptyRef |-> Node(Some([GithubLocked EXCEPT !.ref = Some(Str("main"))]),
                       Some(OriginalRec(None, Some(<<>>), None))),
   \* github with a host
   ghHost |-> Node(Some([GithubLocked EXCEPT !.host = Some(Str("gl.example"))]), None),
   noType |-> Node(Some([GithubLocked EXCEPT !.type = None]), None),
   emptyType |-> Node(Some([GithubLocked EXCEPT !.type = Some(<<>>)]), None),
   emptyRev |-> Node(Some([GithubLocked EXCEPT !.rev = Some(<<>>)]), None),
   noRepo |-> Node(Some([GithubLocked EXCEPT !.repo = None]), None),
   glNoOwner |-> Node(Some([GitlabLocked(None) EXCEPT !.owner = None]), None)]

\* further git nodes
GitNodes ==
  [gitNoUrl |-> Node(Some([GitLocked EXCEPT !.url = None]),
                     Some(OriginalRec(Some(Str("git")), None, Some(GitPlusUrl)))),
   gitEmptyUrl |-> Node(Some([GitLocked EXCEPT !.url = Some(<<>>)]), None),
   \* git without original: no original type
   gitNoOriginal |-> Node(Some(GitLocked), None),
   \* git: original.url with a query but no original.type
   gitUntyped |-> Node(Some(GitLocked),
                       Some(OriginalRec(None, Some(Str("dev")),
                                        Some(<<"https://", "h/p", "?", "shallow=1">>)))),
   \* git over http://, the url taken from locked
   gitHttp |-> Node(Some([GitLocked EXCEPT !.url = Some(<<"http://", "h/p">>)]),
                    Some(OriginalRec(Some(Str("git")), None, None))),
   \* git over ssh://
   gitSsh |-> Node(Some(GitLocked),
                   Some(OriginalRec(Some(Str("git")), None, Some(<<"ssh://", "h/p">>)))),
   \* git with locked {url, rev, ref} and original {type, url, ref}
   gitFull |-> Node(Some(GitLocked),
                    Some(OriginalRec(Some(Str("git")), Some(Str("main")),
                                     Some(<<"git+", "https://", "h/p">>))))]

\* flakeLock.nodes[nodeRef]
NodeOf(ref) ==
  IF ref \in DOMAIN Nodes THEN Some(Nodes[ref])
  ELSE IF ref \in DOMAIN ForgeNodes THEN Some(ForgeNodes[ref])
  ELSE IF ref \in DOMAIN GitNodes THEN Some(GitNodes[ref])
  ELSE None

\* ------------------------------------------------------------------ extractPinnableInputs
PinnedInput(name, type, rev, owner, repo, host, url, originalUrl, originalType, originalRef) ==
  [name |-> name, type |-> type, rev |-> rev, owner |-> owner, repo |-> repo,
   host |-> host, url |-> url, originalUrl |-> originalUrl,
   originalType |-> originalType, originalRef |-> originalRef]

\* original?.f
OrigField(original, f) == IF Defined(original) THEN original[1][f] ELSE None

\* the loop body of extractPinnableInputs once `node` is looked up: <<>> when
\* the input is skipped, <<pinned>> when it is pushed
ExtractNode(inputName, node) ==
  IF ~Defined(node) \/ ~Defined(node[1].locked) THEN <<>>
  ELSE
    LET locked == node[1].locked[1]
        original == node[1].original
        type == locked.type
        rev == locked.rev
        originalRef == Coalesce(OrigField(original, "ref"), locked.ref)
    IN
    IF ~Truthy(type) \/ ~Truthy(rev) THEN <<>>
    ELSE IF type[1] = Str("github") \/ type[1] = Str("gitlab") THEN
      IF ~Truthy(locked.owner) \/ ~Truthy(locked.repo) THEN <<>>
      ELSE << PinnedInput(inputName, type[1], rev[1], locked.owner, locked.repo,
                          IF type[1] = Str("gitlab")
                          THEN Coalesce(locked.host, Some(Str("gitlab.com")))
                          ELSE None,
                          None, None, OrigField(original, "type"), originalRef) >>
    ELSE IF type[1] = Str("git") THEN
      IF ~Truthy(locked.url) THEN <<>>
      ELSE << PinnedInput(inputName, type[1], rev[1], None, None, None,
                          locked.url, OrigField(original, "url"),
                          OrigField(original, "type"), originalRef) >>
    ELSE <<>>

\* one iteration of the loop of extractPinnableInputs
ExtractOne(inputName, nodeRef) == ExtractNode(inputName, NodeOf(nodeRef))

RECURSIVE extractPinnableInputs(_)
\* rootInputs: the entries of flakeLock.nodes.root.inputs in iteration order
extractPinnableInputs(rootInputs) ==
  IF rootInputs = <<>> THEN <<>>
  ELSE ExtractOne(rootInputs[1].name, rootInputs[1].ref)
         \o extractPinnableInputs(Tail(rootInputs))

\* ------------------------------------------------------------------ buildPinnedUrl, buildRenovateComment
Thrown == [thrown |-> TRUE, v |-> <<>>]
Value(s) == [thrown |-> FALSE, v |-> s]

StartsWith(s, a) == Len(s) >= 1 /\ s[1] = a

\* add the git+ prefix if the original type is 'git' and the URL starts with
\* https:// or http://
GitPrefixed(input, url) ==
  IF /\ input.originalType = Some(Str("git"))
     /\ (StartsWith(url, "https://") \/ StartsWith(url, "http://"))
     /\ ~StartsWith(url, "git+")
  THEN <<"git+">> \o url ELSE url

RECURSIVE BeforeQuery(_)
\* s.split('?')[0]
BeforeQuery(s) ==
  IF s = <<>> \/ s[1] = "?" THEN <<>> ELSE <<s[1]>> \o BeforeQuery(Tail(s))

\* the forge identifier built at the branch instead of the revision
buildPinnedUrlAtRef(input) ==
  IF input.type \in {Str("github"), Str("gitlab")} THEN
    IF ~Truthy(input.owner) \/ ~Truthy(input.repo) THEN Thrown
    ELSE Value(<<IF input.type = Str("github") THEN "github:" ELSE "gitlab:">>
                 \o input.owner[1] \o <<"/">> \o input.repo[1] \o <<"/">>
                 \o (IF Truthy(input.originalRef) THEN input.originalRef[1] ELSE input.rev))
  ELSE IF input.type = Str("git") THEN
    LET baseUrl == Coalesce(input.originalUrl, input.url) IN
    IF ~Truthy(baseUrl) THEN Thrown
    ELSE LET cleanUrl == BeforeQuery(GitPrefixed(input, baseUrl[1])) IN
         IF cleanUrl = <<>> THEN Thrown
         ELSE Value(cleanUrl \o <<"?", "rev=">> \o input.rev)
  ELSE Thrown
buildPinnedUrl(input) ==
  IF input.type = Str("github") THEN
    IF ~Truthy(input.owner) \/ ~Truthy(input.repo) THEN Thrown
    ELSE Value(<<"github:">> \o input.owner[1] \o <<"/">> \o input.repo[1]
                 \o <<"/">> \o input.rev)
  ELSE IF input.type = Str("gitlab") THEN
    IF ~Truthy(input.owner) \/ ~Truthy(input.repo) THEN Thrown
    ELSE Value(<<"gitlab:">> \o input.owner[1] \o <<"/">> \o input.repo[1]
                 \o <<"/">> \o input.rev)
  ELSE IF input.type = Str("git") THEN
    LET baseUrl == Coalesce(input.originalUrl, input.url) IN
    IF ~Truthy(baseUrl) THEN Thrown
    ELSE LET cleanUrl == BeforeQuery(GitPrefixed(input, baseUrl[1])) IN
         IF cleanUrl = <<>> THEN Thrown
         ELSE Value(cleanUrl \o <<"?", "rev=">> \o input.rev)
  ELSE Thrown

RECURSIVE Join(_)
\* parts.join(' ')
Join(parts) ==
  IF parts = <<>> THEN <<>>
  ELSE IF Len(parts) = 1 THEN parts[1]
  ELSE parts[1] \o <<SP>> \o Join(Tail(parts))

BranchPart(input) ==
  IF Truthy(input.originalRef) THEN << <<"branch=">> \o input.originalRef[1] >> ELSE <<>>

buildRenovateComment(input, indent) ==
  IF input.type = Str("github") THEN
    IF ~Truthy(input.owner) \/ ~Truthy(input.repo) THEN Thrown
    ELSE Value(indent \o <<"#", SP>> \o
               Join(<< <<"depName=">> \o input.owner[1] \o <<"/">> \o input.repo[1] >>
                    \o BranchPart(input)))
  ELSE IF input.type = Str("gitlab") THEN
    IF ~Truthy(input.owner) \/ ~Truthy(input.repo) \/ ~Truthy(input.host) THEN Thrown
    ELSE Value(indent \o <<"#", SP>> \o
               Join(<< <<"depName=">> \o input.owner[1] \o <<"/">> \o input.repo[1] >>
                    \o BranchPart(input)
                    \o << <<"host=">> \o input.host[1] >>))
  ELSE IF input.type = Str("git") THEN
    LET url == Coalesce(input.originalUrl, input.url) IN
    IF ~Truthy(url) THEN Thrown
    ELSE Value(indent \o <<"#", SP>> \o
               Join(<< <<"url", "=">> \o GitPrefixed(input, url[1]) >> \o BranchPart(input)))
  ELSE Value(indent \o <<"#", SP>>)

\* ------------------------------------------------------------------ the patterns of flakePinning.ts
\* Each XEnd(t, ..., i) is the position after the match of pattern X tried at
\* position i of t, or 0 when X does not match there.

\* simplePattern of pinFlakeInputs: ^(\s*)NAME\.url\s*=.*$  (flags gm)
SimpleEnd(t, name, i) ==
  LET j == SkipWS(t, i)
      k == SkipWS(t, j + Len(name) + 2)
  IN IF /\ AtLineStart(t, i)
        /\ LitAt(t, j, name \o <<".", "url">>)
        /\ AtomAt(t, k, "=")
     THEN EndOfLine(t, k + 1) ELSE 0

\* the positions where the lazy [\s\S]*? of the block pattern may stop: a
\* line start followed by \s*\};
BlockClosers(t, from) ==
  {p \in from..Len(t) : AtLineStart(t, p) /\ LitAt(t, SkipWS(t, p), <<"}", ";">>)}

\* ^(\s*) followed by buildBlockPattern: NAME\s*=\s*\{[\s\S]*?^\s*\};  (flags gm)
buildBlockPattern(t, name, i) ==
  LET j == SkipWS(t, i)
      k == SkipWS(t, j + Len(name))
      m == SkipWS(t, k + 1)
  IN IF /\ AtLineStart(t, i)
        /\ LitAt(t, j, name)
        /\ AtomAt(t, k, "=")
        /\ AtomAt(t, m, "{")
        /\ BlockClosers(t, m + 1) # {}
     THEN SkipWS(t, Min(BlockClosers(t, m + 1))) + 2 ELSE 0

\* the closing quote of "[^"]*" opened at position m
ClosingQuotes(s, m) == {c \in (m + 1)..Len(s) : s[c] = Q}

\* urlLinePattern: (\s*)(url\s*=\s*)"[^"]*";  (flags gm)
UrlLineEnd(s, i) ==
  LET j == SkipWS(s, i)
      k == SkipWS(s, j + 1)
      m == SkipWS(s, k + 1)
  IN IF /\ AtomAt(s, j, "url")
        /\ AtomAt(s, k, "=")
        /\ AtomAt(s, m, Q)
        /\ ClosingQuotes(s, m) # {}
        /\ AtomAt(s, Min(ClosingQuotes(s, m)) + 1, ";")
     THEN Min(ClosingQuotes(s, m)) + 2 ELSE 0

\* the migration pattern: ^(\s*#\s*)renovate:\s+  (flags gm); RenovateAt is
\* the position of the prefix token, the end of group 1
RenovateAt(t, i) == SkipWS(t, SkipWS(t, i) + 1)
MigrationEnd(t, i) ==
  LET j == SkipWS(t, i)
      k == RenovateAt(t, i)
  IN IF /\ AtLineStart(t, i)
        /\ AtomAt(t, j, "#")
        /\ AtomAt(t, k, "renovate:")
        /\ k + 1 <= Len(t) /\ t[k + 1] \in WS
     THEN SkipWS(t, k + 1) ELSE 0

\* RegExp.prototype.exec from lastIndex 0: the leftmost match
ExecSimple(t, name) ==
  LET S == {i \in 1..Len(t) : SimpleEnd(t, name, i) # 0} IN
  IF S = {} THEN NoMatch
  ELSE LET i == Min(S) IN
       [found |-> TRUE, index |-> i,
        text |-> SubSeq(t, i, SimpleEnd(t, name, i) - 1),
        indent |-> SubSeq(t, i, SkipWS(t, i) - 1)]

ExecBlock(t, name) ==
  LET S == {i \in 1..Len(t) : buildBlockPattern(t, name, i) # 0} IN
  IF S = {} THEN NoMatch
  ELSE LET i == Min(S) IN
       [found |-> TRUE, index |-> i,
        text |-> SubSeq(t, i, buildBlockPattern(t, name, i) - 1),
        indent |-> SubSeq(t, i, SkipWS(t, i) - 1)]

ExecUrlLine(s) ==
  LET S == {i \in 1..Len(s) : UrlLineEnd(s, i) # 0} IN
  IF S = {} THEN NoMatch
  ELSE LET i == Min(S) IN
       [found |-> TRUE, index |-> i,
        text |-> SubSeq(s, i, UrlLineEnd(s, i) - 1),
        indent |-> SubSeq(s, i, SkipWS(s, i) - 1)]

RECURSIVE ReplaceUrlLines(_, _, _)
\* blockContent.replace(urlLinePattern, urlReplacement): the pattern has the g
\* flag, so every match from position from on is replaced
ReplaceUrlLines(s, from, replacement) ==
  LET S == {i \in from..Len(s) : UrlLineEnd(s, i) # 0} IN
  IF S = {} THEN SubSeq(s, from, Len(s))
  ELSE LET i == Min(S) IN
       SubSeq(s, from, i - 1) \o replacement
         \o ReplaceUrlLines(s, UrlLineEnd(s, i), replacement)

RECURSIVE MigrateFrom(_, _)
\* flakeNixContent.replace(/^(\s*#\s*)renovate:\s+/gm, '$1')
MigrateFrom(t, from) ==
  LET S == {i \in from..Len(t) : MigrationEnd(t, i) # 0} IN
  IF S = {} THEN SubSeq(t, from, Len(t))
  ELSE LET i == Min(S) IN
       SubSeq(t, from, RenovateAt(t, i) - 1) \o MigrateFrom(t, MigrationEnd(t, i))

Migrate(t) == MigrateFrom(t, 1)

\* simplePattern of isAlreadyPinned: NAME\.url\s*=\s*"URL"
PinnedSimpleAt(t, name, url, i) ==
  /\ LitAt(t, i, name \o <<".", "url">>)
  /\ LET k == SkipWS(t, i + Len(name) + 2) IN
     /\ AtomAt(t, k, "=")
     /\ LitAt(t, SkipWS(t, k + 1), <<Q>> \o url \o <<Q>>)

\* url\s*=\s*"URL" at position p: the position after it, 0 when no match
UrlLiteralEnd(t, url, p) ==
  LET k == SkipWS(t, p + 1)
      m == SkipWS(t, k + 1)
  IN IF AtomAt(t, p, "url") /\ AtomAt(t, k, "=") /\ LitAt(t, m, <<Q>> \o url \o <<Q>>)
     THEN m + Len(url) + 2 ELSE 0

\* blockPattern of isAlreadyPinned: NAME\s*=\s*\{[\s\S]*?url\s*=\s*"URL"[\s\S]*?\};
PinnedBlockAt(t, name, url, i) ==
  /\ LitAt(t, i, name)
  /\ LET k == SkipWS(t, i + Len(name))
         m == SkipWS(t, k + 1)
     IN /\ AtomAt(t, k, "=")
        /\ AtomAt(t, m, "{")
        /\ \E p \in (m + 1)..Len(t) :
             /\ UrlLiteralEnd(t, url, p) # 0
             /\ \E c \in UrlLiteralEnd(t, url, p)..Len(t) : LitAt(t, c, <<"}", ";">>)

\* isAlreadyPinned with pinnedUrl already built
isAlreadyPinned(flakeNixContent, name, pinnedUrl) ==
  \/ \E i \in 1..Len(flakeNixContent) : PinnedSimpleAt(flakeNixContent, name, pinnedUrl, i)
  \/ \E i \in 1..Len(flakeNixContent) : PinnedBlockAt(flakeNixContent, name, pinnedUrl, i)

\* text.slice(0, index) + replacement + text.slice(index + length)
Splice(t, index, length, replacement) ==
  SubSeq(t, 1, index - 1) \o replacement \o SubSeq(t, index + length, Len(t))

\* ------------------------------------------------------------------ one iteration of the loop of pinFlakeInputs
StepResult(outcome, content, match, isBlockFormat) ==
  [outcome |-> outcome, content |-> content, match |-> match,
   isBlockFormat |-> isBlockFormat]

UrlAssignment(pinnedUrl) == <<"url", SP, "=", SP, Q>> \o pinnedUrl \o <<Q, ";">>

\* the block branch: replace the url line within the matched block
RewriteBlock(content, input, pinnedUrl, match) ==
  LET blockContent == match.text
      urlMatch == ExecUrlLine(blockContent)
  IN IF ~urlMatch.found THEN StepResult("noUrlLine", content, match, TRUE)
     ELSE
       LET urlIndent == urlMatch.indent
           renovateComment == buildRenovateComment(input, urlIndent)
       IN IF renovateComment.thrown THEN StepResult("thrown", content, match, TRUE)
          ELSE
            LET urlReplacement == renovateComment.v \o urlIndent \o UrlAssignment(pinnedUrl)
                newBlockContent == ReplaceUrlLines(blockContent, 1, urlReplacement)
            IN StepResult("rewritten",
                          Splice(content, match.index, Len(blockContent), newBlockContent),
                          match, TRUE)

\* the simple branch: replace the matched line
RewriteSimple(content, input, pinnedUrl, match) ==
  LET indent == match.indent
      renovateComment == buildRenovateComment(input, indent)
  IN IF renovateComment.thrown THEN StepResult("thrown", content, match, FALSE)
     ELSE
       LET replacement == renovateComment.v \o <<NL>> \o indent \o input.name
                            \o <<".">> \o UrlAssignment(pinnedUrl)
       IN StepResult("rewritten",
                     Splice(content, match.index, Len(match.text), replacement),
                     match, FALSE)

\* blockPattern.exec, then simplePattern.exec if the first found nothing
LocateBlockFirst(content, name) ==
  LET block == ExecBlock(content, name) IN
  IF block.found THEN [match |-> block, isBlockFormat |-> TRUE]
  ELSE [match |-> ExecSimple(content, name), isBlockFormat |-> FALSE]
\* simplePattern.exec, then blockPattern.exec if the first found nothing
Locate(content, name) ==
  LET simple == ExecSimple(content, name) IN
  IF simple.found THEN [match |-> simple, isBlockFormat |-> FALSE]
  ELSE [match |-> ExecBlock(content, name), isBlockFormat |-> TRUE]

\* the body of `for (const input of pinnableInputs)`
ProcessInput(content, input) ==
  LET pinnedUrl == buildPinnedUrl(input) IN
  IF pinnedUrl.thrown THEN StepResult("thrown", content, NoMatch, FALSE)
  ELSE IF isAlreadyPinned(content, input.name, pinnedUrl.v)
  THEN StepResult("alreadyPinned", content, NoMatch, FALSE)
  ELSE
    LET loc == Locate(content, input.name) IN
    IF ~loc.match.found THEN StepResult("notFound", content, NoMatch, TRUE)
    ELSE IF loc.isBlockFormat
    THEN RewriteBlock(content, input, pinnedUrl.v, loc.match)
    ELSE RewriteSimple(content, input, pinnedUrl.v, loc.match)

\* ------------------------------------------------------------------ flake.lock files of the model
NameA == <<"a">>
NameB == <<"b">>
RootEntry(name, ref) == [name |-> name, ref |-> ref]
RefsA == {"gh", "gl", "glEmptyHost", "git", "gitEmptyOrig", "tarball"}
RefsB == {"gh", "gh2"}
EntriesA == {RootEntry(NameA, r) : r \in RefsA}
EntriesB == {RootEntry(NameB, r) : r \in RefsB}
DistinctNames(es) == \A i, j \in 1..Len(es) : i # j => es[i].name # es[j].name
RootInputs ==
  {es \in UNION {[1..n -> EntriesA \cup EntriesB] : n \in 0..MaxInputs} :
     DistinctNames(es)}

\* ------------------------------------------------------------------ flake.nix texts of the model
\* A flake.nix of the model is `inputs = {`, up to MaxSegs segments and `};`.
\* A segment is a declaration of input a or b in one of the layouts below, a
\* blank line or a comment line that carries the deprecated prefix.  No input
\* is declared twice, and a declaration names the source its lock node
\* resolves.
Header == <<"inputs", SP, "=", SP, "{", NL>>
Footer == <<"}", ";", NL>>
\* ` NAME.url = "URL";`
InlineDecl(n, u) == <<SP>> \o n \o <<".">> \o UrlAssignment(u) \o <<NL>>
\* ` NAME = {` / `  url = "URL";` / ` };`
BlockDecl(n, u) ==
  <<SP>> \o n \o <<SP, "=", SP, "{", NL, SP, SP>> \o UrlAssignment(u)
    \o <<NL, SP, "}", ";", NL>>
\* a block with a second nested line that assigns a url
BlockDeclTwoUrls(n, u) ==
  <<SP>> \o n \o <<SP, "=", SP, "{", NL, SP, SP>> \o UrlAssignment(u)
    \o <<NL, SP, SP, "inputs", ".", "k", ".">> \o UrlAssignment(<<"z">>)
    \o <<NL, SP, "}", ";", NL>>
\* a block that sets no url: ` NAME = {` / `  flake = false;` / ` };`
BlockDeclNoUrl(n) ==
  <<SP>> \o n \o <<SP, "=", SP, "{", NL, SP, SP, "flake", SP, "=", SP, "false", ";">>
    \o <<NL, SP, "}", ";", NL>>
\* ` NAME = { url = "URL"; };`
OneLineBlockDecl(n, u) ==
  <<SP>> \o n \o <<SP, "=", SP, "{", SP>> \o UrlAssignment(u) \o <<SP, "}", ";", NL>>
BlankLine == <<NL>>
\* ` # renovate: depName=o/r`
DeprecatedComment == <<SP, "#", SP, "renovate:", SP, "depName=", "o", "/", "r", NL>>
\* ` # renovate:`, the prefix with nothing after it on its line
BareDeprecatedComment == <<SP, "#", SP, "renovate:", NL>>

\* the url a flake.nix declares for an input that flake.lock does not pin
OtherUrl == <<"path:", "x">>

\* the unpinned url of the declaration of a candidate
UnpinnedUrl(input) ==
  IF input.type = Str("github")
  THEN <<"github:">> \o input.owner[1] \o <<"/">> \o input.repo[1]
  ELSE IF input.type = Str("gitlab")
  THEN <<"gitlab:">> \o input.owner[1] \o <<"/">> \o input.repo[1]
  ELSE IF Truthy(input.originalUrl) THEN input.originalUrl[1]
  ELSE <<"git+">> \o input.url[1]

\* the url of the declaration of the candidates `inputs` (none or one)
UrlOfDeclaration(inputs, pinned) ==
  IF inputs = <<>> THEN OtherUrl
  ELSE IF pinned /\ ~buildPinnedUrl(inputs[1]).thrown THEN buildPinnedUrl(inputs[1]).v
  ELSE UnpinnedUrl(inputs[1])

\* the unpinned url of the declaration that a lock node resolves
DeclaredUrl(ref) == UrlOfDeclaration(ExtractOne(<<>>, ref), FALSE)

\* the url of a declaration that an earlier invocation pinned
PinnedDeclUrl(ref) == UrlOfDeclaration(ExtractOne(<<>>, ref), TRUE)

Shape(kind, name) == [kind |-> kind, name |-> name]
Shapes ==
  {Shape(k, NameA) : k \in {"inline", "inlinePinned", "block", "blockTwoUrls", "oneLineBlock"}}
  \cup {Shape(k, NameB) : k \in {"inline", "block", "blockNoUrl"}}
  \cup {Shape("blank", <<>>), Shape("deprecatedComment", <<>>),
        Shape("bareDeprecatedComment", <<>>)}
Layouts ==
  {ss \in UNION {[1..n -> Shapes] : n \in 0..MaxSegs} :
     \A i, j \in 1..Len(ss) : (i # j /\ ss[i].name # <<>>) => ss[i].name # ss[j].name}

RefOf(roots, name) ==
  IF \E k \in 1..Len(roots) : roots[k].name = name
  THEN roots[CHOOSE k \in 1..Len(roots) : roots[k].name = name].ref
  ELSE "absent"

Segment(shape, roots) ==
  LET ref == RefOf(roots, shape.name) IN
  CASE shape.kind = "inline" -> InlineDecl(shape.name, DeclaredUrl(ref))
    [] shape.kind = "inlinePinned" -> InlineDecl(shape.name, PinnedDeclUrl(ref))
    [] shape.kind = "block" -> BlockDecl(shape.name, DeclaredUrl(ref))
    [] shape.kind = "blockTwoUrls" -> BlockDeclTwoUrls(shape.name, DeclaredUrl(ref))
    [] shape.kind = "blockNoUrl" -> BlockDeclNoUrl(shape.name)
    [] shape.kind = "oneLineBlock" -> OneLineBlockDecl(shape.name, DeclaredUrl(ref))
    [] shape.kind = "blank" -> BlankLine
    [] shape.kind = "deprecatedComment" -> DeprecatedComment
    [] shape.kind = "bareDeprecatedComment" -> BareDeprecatedComment

RECURSIVE Body(_, _)
Body(layout, roots) ==
  IF layout = <<>> THEN <<>>
  ELSE Segment(layout[1], roots) \o Body(Tail(layout), roots)

FlakeNix(layout, roots) == Header \o Body(layout, roots) \o Footer

\* ------------------------------------------------------------------ locks for the extractor and the builders
\* every node of Nodes, and a reference that resolves to no node (a follows
\* reference)
LockRefs == DOMAIN Nodes \cup DOMAIN ForgeNodes \cup DOMAIN GitNodes \cup {"followed"}
LockRootInputs ==
  {es \in UNION {[1..n -> {RootEntry(nm, r) : nm \in {NameA, NameB}, r \in LockRefs}] :
                   n \in 0..MaxInputs} :
     DistinctNames(es)}
\* a is declared inline, b as a block
LockLayout == <<Shape("inline", NameA), Shape("block", NameB)>>

\* ------------------------------------------------------------------ state
VARIABLES
  rootInputs,       \* flake.lock: nodes.root.inputs, in iteration order
  expired,          \* new Date() > migrationDeadline
  nixDisk,          \* flake.nix on disk
  diskAtStart,      \* flake.nix on disk when the current invocation started
  run,              \* number of the current invocation of pinFlakeInputs
  pc,               \* position in pinFlakeInputs
  pinnableInputs,
  idx,              \* index of the next input of the for loop
  beforeFix,        \* flake.nix as read by this invocation
  flakeNixContent,
  hasChanges,
  beforeContent,    \* the buffer before the latest processed input
  last,             \* the StepResult of the latest processed input
  log,              \* logger calls of this invocation
  writes,           \* writeFile calls of this invocation
  result,           \* the value returned: "none", "true", "false"
  err               \* what made the invocation throw, "none" if nothing did

\* the batch run of main.ts over a list of repositories
VARIABLES
  repos,            \* the repositories of runBatchUpdate, in order
  dryRun,           \* --dry-run
  platform,         \* provider.platform: which adapter createAdapter returns
  token,            \* whether RENOVATE_TOKEN is set
  repoIdx,          \* index of the repository updateRepo is processing
  upc,              \* position in runBatchUpdate / updateRepo
  automerge,        \* repoConfig.automerge of the current repository
  workdirs,         \* the directories under tmpdir(): a clone or nothing
  lastClone,        \* what the latest cloneRepo call did
  calls,            \* requests sent to the remote and the forge, in order
  codes,            \* the exit code updateRepo returned for each repository
  success,
  skip,
  fail,
  exitCode          \* the value runBatchUpdate returned, "none" before

pinVars == <<rootInputs, expired, nixDisk, diskAtStart, run, pc, pinnableInputs, idx,
             beforeFix, flakeNixContent, hasChanges, beforeContent, last, log,
             writes, result, err>>
repoVars == <<repos, dryRun, platform, token, repoIdx, upc, automerge, workdirs, lastClone,
              calls, codes, success, skip, fail, exitCode>>
vars == <<pinVars, repoVars>>

NoClone == [reused |-> FALSE, ok |-> FALSE, origin |-> <<>>, repo |-> <<>>]

\* no batch is running: pinFlakeInputs is looked at on its own
ReposIdle ==
  /\ repos = <<>>
  /\ dryRun = FALSE
  /\ platform = "github"
  /\ token = FALSE
  /\ repoIdx = 1
  /\ upc = "idle"
  /\ automerge = FALSE
  /\ workdirs = <<>>
  /\ lastClone = NoClone
  /\ calls = <<>>
  /\ codes = <<>>
  /\ success = 0
  /\ skip = 0
  /\ fail = 0
  /\ exitCode = "none"

NoStep == StepResult("none", <<>>, NoMatch, FALSE)
LogEntry(level, msg, inputName, rev) ==
  [level |-> level, msg |-> msg, inputName |-> inputName, rev |-> rev]

Locals0 ==
  /\ pc = "start"
  /\ pinnableInputs = <<>>
  /\ idx = 1
  /\ beforeFix = <<>>
  /\ flakeNixContent = <<>>
  /\ hasChanges = FALSE
  /\ beforeContent = <<>>
  /\ last = NoStep
  /\ log = <<>>
  /\ writes = 0
  /\ result = "none"
  /\ err = "none"

Init ==
  /\ rootInputs \in RootInputs
  /\ expired \in BOOLEAN
  /\ \E layout \in Layouts : nixDisk = FlakeNix(layout, rootInputs)
  /\ diskAtStart = nixDisk
  /\ run = 1
  /\ Locals0
  /\ ReposIdle

\* the promise of pinFlakeInputs rejects; nothing else changes
Throw(what) ==
  /\ pc' = "thrown"
  /\ err' = what
  /\ UNCHANGED <<rootInputs, expired, diskAtStart, run, pinnableInputs, idx,
                 beforeFix, flakeNixContent, hasChanges, beforeContent, last, log,
                 writes, result>>
  /\ UNCHANGED repoVars

\* readFlakeLock rejects: flake.lock is missing or is not JSON
ReadLockFails ==
  /\ pc = "start"
  /\ Throw("flake.lock")
  /\ UNCHANGED nixDisk

\* readFlakeLock, extractPinnableInputs and the zero-candidate return
\* no early return on an empty candidate list
ReadLockThenReadNix ==
  /\ pc = "start"
  /\ pinnableInputs' = extractPinnableInputs(rootInputs)
  /\ pc' = "readNix"
  /\ UNCHANGED <<rootInputs, expired, nixDisk, diskAtStart, run, idx, beforeFix,
                 flakeNixContent, hasChanges, beforeContent, last, log, writes, err, result>>
  /\ UNCHANGED repoVars
ReadLock ==
  /\ pc = "start"
  /\ pinnableInputs' = extractPinnableInputs(rootInputs)
  /\ IF pinnableInputs' = <<>>
     THEN pc' = "returned" /\ result' = "false"
     ELSE pc' = "readNix" /\ result' = result
  /\ UNCHANGED <<rootInputs, expired, nixDisk, diskAtStart, run, idx, beforeFix,
                 flakeNixContent, hasChanges, beforeContent, last, log, writes, err>>
  /\ UNCHANGED repoVars

\* readFile(flakeNixPath) rejects
ReadNixFails ==
  /\ pc = "readNix"
  /\ Throw("flake.nix read")
  /\ UNCHANGED nixDisk

\* new Date() > migrationDeadline
DeadlineNeverPassed == FALSE
DeadlinePassed == expired

\* the migration substitution applied without marking the buffer as changed
ReadNixMigrationUncounted ==
  /\ pc = "readNix"
  /\ beforeFix' = nixDisk
  /\ IF DeadlinePassed
     THEN /\ pc' = "thrown"
          /\ err' = "migration expired"
          /\ flakeNixContent' = nixDisk
          /\ UNCHANGED <<hasChanges, log>>
     ELSE /\ pc' = "loop"
          /\ err' = err
          /\ flakeNixContent' = Migrate(nixDisk)
          /\ hasChanges' = hasChanges
          /\ log' = IF flakeNixContent' # nixDisk
                    THEN Append(log, LogEntry("info", "Fixed existing renovate: prefixes in comments", <<>>, <<>>))
                    ELSE log
  /\ UNCHANGED <<rootInputs, expired, nixDisk, diskAtStart, run, pinnableInputs, idx,
                 beforeContent, last, writes, result>>
  /\ UNCHANGED repoVars
\* readFile(flakeNixPath), the deadline check and the migration substitution
ReadNix ==
  /\ pc = "readNix"
  /\ beforeFix' = nixDisk
  /\ IF DeadlinePassed
     THEN /\ pc' = "thrown"
          /\ err' = "migration expired"
          /\ flakeNixContent' = nixDisk
          /\ UNCHANGED <<hasChanges, log>>
     ELSE /\ pc' = "loop"
          /\ err' = err
          /\ flakeNixContent' = Migrate(nixDisk)
          /\ hasChanges' = (flakeNixContent' # nixDisk)
          /\ log' = IF flakeNixContent' # nixDisk
                    THEN Append(log, LogEntry("info", "Fixed existing renovate: prefixes in comments", <<>>, <<>>))
                    ELSE log
  /\ UNCHANGED <<rootInputs, expired, nixDisk, diskAtStart, run, pinnableInputs, idx,
                 beforeContent, last, writes, result>>
  /\ UNCHANGED repoVars

\* `flakeNixContent !== beforeContent`
ChangedAlways(before, after) == TRUE
Changed(before, after) == after # before

\* one iteration of the for loop, as far as the locals and the log go
PinInputLocals ==
  /\ pc = "loop"
  /\ idx <= Len(pinnableInputs)
  /\ LET input == pinnableInputs[idx]
         r == ProcessInput(flakeNixContent, input)
     IN /\ last' = r
        /\ beforeContent' = flakeNixContent
        /\ flakeNixContent' = r.content
        /\ IF r.outcome = "thrown"
           THEN pc' = "thrown" /\ err' = "input" /\ UNCHANGED <<idx, hasChanges, log>>
           ELSE /\ pc' = "loop"
                /\ err' = err
                /\ idx' = idx + 1
                /\ IF r.outcome = "alreadyPinned"
                   THEN UNCHANGED <<hasChanges, log>>
                   ELSE IF r.outcome = "notFound"
                   THEN /\ hasChanges' = hasChanges
                        /\ log' = Append(log, LogEntry("warn", "Input not found in flake.nix, skipping", input.name, <<>>))
                   ELSE IF Changed(flakeNixContent, r.content)
                   THEN /\ hasChanges' = TRUE
                        /\ log' = Append(log, LogEntry("info", "Pinned flake input", input.name, input.rev))
                   ELSE UNCHANGED <<hasChanges, log>>
  /\ UNCHANGED <<rootInputs, expired, diskAtStart, run, pinnableInputs,
                 beforeFix, writes, result>>
  /\ UNCHANGED repoVars

\* an iteration that also writes the buffer to flake.nix
PinInputWriteThrough == PinInputLocals /\ nixDisk' = flakeNixContent'

\* one iteration of the for loop: the file is not touched
PinInput == PinInputLocals /\ UNCHANGED nixDisk

\* after the loop: writeFile if hasChanges, then return hasChanges
WriteAndReturn ==
  /\ pc = "loop"
  /\ idx > Len(pinnableInputs)
  /\ pc' = "returned"
  /\ result' = IF hasChanges THEN "true" ELSE "false"
  /\ nixDisk' = IF hasChanges THEN flakeNixContent ELSE nixDisk
  /\ writes' = IF hasChanges THEN writes + 1 ELSE writes
  /\ UNCHANGED <<rootInputs, expired, diskAtStart, run, pinnableInputs, idx, beforeFix,
                 flakeNixContent, hasChanges, beforeContent, last, log, err>>
  /\ UNCHANGED repoVars

\* writeFile(flakeNixPath) rejects: the file could not be opened and is as it
\* was, or it was opened (and so truncated) and the write failed
WriteFails ==
  /\ pc = "loop"
  /\ idx > Len(pinnableInputs)
  /\ hasChanges
  /\ Throw("flake.nix write")
  /\ nixDisk' \in {nixDisk, <<>>}

\* the next invocation of pinFlakeInputs on the same checkout
Invoke ==
  /\ pc = "returned"
  /\ run < MaxRuns
  /\ run' = run + 1
  /\ diskAtStart' = nixDisk
  /\ pc' = "start"
  /\ pinnableInputs' = <<>>
  /\ idx' = 1
  /\ beforeFix' = <<>>
  /\ flakeNixContent' = <<>>
  /\ hasChanges' = FALSE
  /\ beforeContent' = <<>>
  /\ last' = NoStep
  /\ log' = <<>>
  /\ writes' = 0
  /\ result' = "none"
  /\ err' = "none"
  /\ UNCHANGED <<rootInputs, expired, nixDisk>>
  /\ UNCHANGED repoVars

Next ==
  \/ ReadLockFails
  \/ ReadLock
  \/ ReadNixFails
  \/ ReadNix
  \/ PinInput
  \/ WriteAndReturn
  \/ WriteFails
  \/ Invoke

Spec == Init /\ [][Next]_vars

\* pinFlakeInputs over every lock of LockRootInputs
InitLocks ==
  /\ rootInputs \in LockRootInputs
  /\ expired \in BOOLEAN
  /\ nixDisk = FlakeNix(LockLayout, rootInputs)
  /\ diskAtStart = nixDisk
  /\ run = 1
  /\ Locals0
  /\ ReposIdle

SpecLocks == InitLocks /\ [][Next]_vars

\* flake.nix texts that declare input a twice or more, inline and as a block,
\* in either order
InlineKinds == {"inline", "inlinePinned"}
BlockKinds == {"block", "blockTwoUrls", "oneLineBlock"}
BothLayouts ==
  {ss \in UNION {[1..n -> {sh \in Shapes : sh.name = NameA} \cup {Shape("blank", <<>>)}] :
                   n \in 2..MaxSegs} :
     /\ \E i \in 1..Len(ss) : ss[i].kind \in InlineKinds
     /\ \E i \in 1..Len(ss) : ss[i].kind \in BlockKinds}

\* pinFlakeInputs over the texts of BothLayouts
InitBoth ==
  /\ rootInputs \in RootInputs
  /\ expired \in BOOLEAN
  /\ \E layout \in BothLayouts : nixDisk = FlakeNix(layout, rootInputs)
  /\ diskAtStart = nixDisk
  /\ run = 1
  /\ Locals0
  /\ ReposIdle

SpecBoth == InitBoth /\ [][Next]_vars

\* ------------------------------------------------------------------ gitOperations.ts
MaxRepos == 2

\* repository identifiers, owner/name
RepoOR == <<"o", "/", "r">>
RepoABC == <<"a", "-", "b", "/", "c">>
RepoA_BC == <<"a", "/", "b", "-", "c">>
RepoIds == {RepoOR, RepoABC, RepoA_BC}

\* repo.replace(/\//g, '-')
SlashesToDashes(repo) == [k \in 1..Len(repo) |-> IF repo[k] = "/" THEN "-" ELSE repo[k]]
\* join(tmpdir(), `flake-update-${...}`)
makeRepoWorkdir(repo) == <<"/tmp/", "flake-update-">> \o SlashesToDashes(repo)
Dirs == {makeRepoWorkdir(r) : r \in RepoIds}

DefaultBranch == "main"
\* `${repoConfig.branchPrefix}pin-flake-inputs`
PinBranch == "pin-flake-inputs"

\* a checkout: the repository it was cloned from, the branch HEAD is on, whether
\* that branch is at the remote default branch's commit ("remote") or at a
\* local commit ("local"), the tracked files (as committed or modified) and
\* whether untracked files exist
Clone(origin, branch, head, tracked, untracked) ==
  [origin |-> origin, branch |-> branch, head |-> head, tracked |-> tracked,
   untracked |-> untracked]

\* git reset --hard origin/HEAD: the current branch, the index and the tracked
\* files are set to the commit of origin/HEAD; HEAD stays on the current branch
ResetHardOriginHead(c) == [c EXCEPT !.head = "remote", !.tracked = "clean"]
\* git clean -fdx
CleanFdx(c) == [c EXCEPT !.untracked = FALSE]
\* git clone: a checkout of the default branch
GitClone(repo) == Clone(repo, DefaultBranch, "remote", "clean", FALSE)

\* cloneRepo; `existing` is the checkout in repoDir, if any; the other
\* parameters tell which git commands succeed
cloneRepo(existing, repo, fetchOk, resetOk, cleanOk, cloneOk) ==
  IF existing # <<>> /\ fetchOk /\ resetOk /\ cleanOk
  THEN [ok |-> TRUE, reused |-> TRUE,
        dir |-> Some(CleanFdx(ResetHardOriginHead(existing[1])))]
  ELSE [ok |-> cloneOk, reused |-> FALSE,
        dir |-> IF cloneOk THEN Some(GitClone(repo)) ELSE None]

\* git checkout -B branchName
CheckoutB(c) == [c EXCEPT !.branch = PinBranch]
\* commitFlakeNix: git add flake.nix, git commit
CommitFlakeNix(c) == [c EXCEPT !.head = "local", !.tracked = "clean"]
\* pinFlakeInputs returned true: flake.nix was rewritten
FlakeNixWritten(c) == [c EXCEPT !.tracked = "modified"]

\* ------------------------------------------------------------------ the platform adapters
Platforms == {"github", "forgejo", "bitbucket"}
Supported(p) == p \in {"github", "forgejo", "gitea"}

\* a call of an adapter method or of git push, or an HTTP request an adapter
\* sends; `flag` is what it found or whether the branch it names exists
Call(op, flag) == [op |-> op, flag |-> flag]

\* GitHubAdapter.deleteBranch
GitHubDeleteBranch(exists) == <<Call("DELETE", exists)>>
\* ForgejoAdapter.branchExists: response?.ok === true
ForgejoBranchExists(exists, responded) == exists /\ responded
\* ForgejoAdapter.deleteBranch
ForgejoDeleteBranch(exists, responded) ==
  <<Call("branchExists", ForgejoBranchExists(exists, responded))>>
    \o (IF ForgejoBranchExists(exists, responded) THEN <<Call("DELETE", exists)>> ELSE <<>>)
\* adapter.deleteBranch(repo, branchName, token)
deleteBranch(p, exists, responded) ==
  <<Call("deleteBranch", exists)>>
    \o (IF p = "github" THEN GitHubDeleteBranch(exists)
        ELSE ForgejoDeleteBranch(exists, responded))

\* ------------------------------------------------------------------ main.ts: runBatchUpdate and updateRepo
Repo == repos[repoIdx]
RepoDir == makeRepoWorkdir(Repo)

\* updateRepo returns `code`; runBatchUpdate counts it and goes to the next repository
Return(code) ==
  /\ codes' = Append(codes, code)
  /\ success' = IF code = 0 THEN success + 1 ELSE success
  /\ fail' = IF code = 1 THEN fail + 1 ELSE fail
  /\ skip' = IF code = 2 THEN skip + 1 ELSE skip
  /\ repoIdx' = repoIdx + 1
  /\ upc' = "entry"
  /\ UNCHANGED exitCode

\* updateRepo goes on to its next statement
GoOn(next) ==
  /\ upc' = next
  /\ UNCHANGED <<codes, success, skip, fail, repoIdx, exitCode>>

\* an await of updateRepo rejects: updateRepo, runBatchUpdate and main reject
Reject ==
  /\ upc' = "rejected"
  /\ UNCHANGED <<codes, success, skip, fail, repoIdx, exitCode>>

\* updateRepo up to the token check
LoadConfig ==
  /\ upc = "entry"
  /\ repoIdx <= Len(repos)
  /\ calls' = <<>>
  /\ \E o \in {"configThrows", "nixDisabled", "outsideSchedule", "ok"}, am \in BOOLEAN :
       /\ automerge' = am
       /\ IF o = "configThrows" THEN Reject
          ELSE IF o = "nixDisabled" THEN Return(2)
          ELSE IF ~Supported(platform) THEN Reject
          ELSE IF o = "outsideSchedule" THEN Return(2)
          ELSE IF ~token THEN Return(1)
          ELSE GoOn("clone")
  /\ UNCHANGED <<repos, dryRun, platform, token, workdirs, lastClone>>
  /\ UNCHANGED pinVars

\* makeRepoWorkdir, cloneRepo, hasFlakeNix, configureGitIdentity, getDefaultBranch
CloneRepo ==
  /\ upc = "clone"
  /\ \E fetchOk, resetOk, cleanOk, cloneOk \in BOOLEAN :
     \E o \in {"noFlakeNix", "noDefaultBranch", "ok"} :
       LET r == cloneRepo(workdirs[RepoDir], Repo, fetchOk, resetOk, cleanOk, cloneOk) IN
       /\ workdirs' = [workdirs EXCEPT ![RepoDir] = r.dir]
       /\ lastClone' = [reused |-> r.reused, ok |-> r.ok,
                        origin |-> IF r.ok THEN r.dir[1].origin ELSE <<>>,
                        repo |-> Repo]
       /\ IF ~r.ok THEN Return(1)
          ELSE IF o = "noFlakeNix" THEN Return(2)
          ELSE IF o = "noDefaultBranch" THEN Return(1)
          ELSE GoOn("pin")
  /\ UNCHANGED <<repos, dryRun, platform, token, automerge, calls>>
  /\ UNCHANGED pinVars

\* what `await pinFlakeInputs(repoDir)` can do: return true, return false, reject
PinOutcomes == {"true", "false", "thrown"}

\* the call of pinFlakeInputs
PinFlakeInputs ==
  /\ upc = "pin"
  /\ \E o \in PinOutcomes :
       IF o = "thrown" THEN Reject /\ UNCHANGED workdirs
       ELSE IF o = "false" THEN GoOn("cleanup") /\ UNCHANGED workdirs
       ELSE /\ GoOn("branch")
            /\ workdirs' = [workdirs EXCEPT ![RepoDir] = Some(FlakeNixWritten(@[1]))]
  /\ UNCHANGED <<repos, dryRun, platform, token, automerge, lastClone, calls>>
  /\ UNCHANGED pinVars

\* nothing to pin: close the open pull request, delete the branch, return 2
NothingToPin ==
  /\ upc = "cleanup"
  /\ \E found \in {"throws", "none", "found"}, exists, responded \in BOOLEAN :
       IF found = "throws"
       THEN /\ calls' = Append(calls, Call("findExistingPullRequest", FALSE))
            /\ Reject
       ELSE /\ calls' = calls \o <<Call("findExistingPullRequest", found = "found")>>
                          \o (IF found = "found" THEN <<Call("closePullRequest", TRUE)>> ELSE <<>>)
                          \o deleteBranch(platform, exists, responded)
            /\ Return(2)
  /\ UNCHANGED <<repos, dryRun, platform, token, automerge, workdirs, lastClone>>
  /\ UNCHANGED pinVars

\* hasFlakeNixChanges, the dry-run branch, ensureBranchAndCommit and the
\* comparisons with the default branch and the remote branch
PrepareBranch ==
  /\ upc = "branch"
  /\ \E o \in {"noChanges", "checkoutFails", "commitFails", "noDiff", "remoteSame", "ready"} :
       /\ workdirs' =
            [workdirs EXCEPT ![RepoDir] =
               IF o \in {"noChanges", "checkoutFails"} THEN @
               ELSE IF o = "commitFails" THEN Some(CheckoutB(@[1]))
               ELSE Some(CommitFlakeNix(CheckoutB(@[1])))]
       /\ IF o = "noChanges" THEN Return(2)
          ELSE IF o \in {"checkoutFails", "commitFails"} THEN Return(1)
          ELSE IF o = "noDiff" THEN Return(2)
          ELSE IF dryRun THEN Return(0)
          ELSE IF o = "remoteSame" THEN Return(2)
          ELSE GoOn("push")
  /\ UNCHANGED <<repos, dryRun, platform, token, automerge, lastClone, calls>>
  /\ UNCHANGED pinVars

\* pushBranch
PushBranch ==
  /\ upc = "push"
  /\ \E ok \in BOOLEAN :
       /\ calls' = Append(calls, Call("pushBranch", ok))
       /\ IF ok THEN GoOn("pr") ELSE Return(1)
  /\ UNCHANGED <<repos, dryRun, platform, token, automerge, workdirs, lastClone>>
  /\ UNCHANGED pinVars

\* whether updateRepo creates a pull request, given what it found
CreatesAlways(existing) == TRUE
CreatesPullRequest(existing) == ~existing

\* after the push: the existing pull request or a new one, and automerge
PullRequest ==
  /\ upc = "pr"
  /\ \E found \in {"throws", "none", "found"}, created \in BOOLEAN :
       IF found = "throws"
       THEN /\ calls' = Append(calls, Call("findExistingPullRequest", FALSE))
            /\ Reject
       ELSE /\ calls' =
                 calls \o <<Call("findExistingPullRequest", found = "found")>>
                   \o (IF CreatesPullRequest(found = "found")
                       THEN <<Call("createPullRequest", created)>> ELSE <<>>)
                   \o (IF automerge /\ (found = "found" \/ created)
                       THEN <<Call("enableAutomerge", TRUE)>> ELSE <<>>)
            /\ Return(0)
  /\ UNCHANGED <<repos, dryRun, platform, token, automerge, workdirs, lastClone>>
  /\ UNCHANGED pinVars

\* the end of the loop of runBatchUpdate: the summary and the return value
Summary ==
  /\ upc = "entry"
  /\ repoIdx > Len(repos)
  /\ upc' = "done"
  /\ exitCode' = IF fail > 0 THEN 1 ELSE 0
  /\ UNCHANGED <<repos, dryRun, platform, token, repoIdx, automerge, workdirs, lastClone,
                 calls, codes, success, skip, fail>>
  /\ UNCHANGED pinVars

NextRepos ==
  \/ LoadConfig
  \/ CloneRepo
  \/ PinFlakeInputs
  \/ NothingToPin
  \/ PrepareBranch
  \/ PushBranch
  \/ PullRequest
  \/ Summary

\* the lists of repositories given to runBatchUpdate
DistinctRepos(rs) == \A i, j \in 1..Len(rs) : i # j => rs[i] # rs[j]
RepoLists ==
  {rs \in UNION {[1..n -> RepoIds] : n \in 1..MaxRepos} : DistinctRepos(rs)}

\* the checkouts an earlier run left under tmpdir(): each in the directory
\* makeRepoWorkdir gave its repository
\* as cloned; with a local commit; with a modified flake.nix and untracked files
LeftStates ==
  {[head |-> "remote", tracked |-> "clean", untracked |-> FALSE],
   [head |-> "local", tracked |-> "clean", untracked |-> FALSE],
   [head |-> "remote", tracked |-> "modified", untracked |-> TRUE]}
LeftBehind(d) ==
  {None} \cup
  {Some(Clone(r, b, st.head, st.tracked, st.untracked)) :
     r \in {x \in RepoIds : makeRepoWorkdir(x) = d},
     b \in {DefaultBranch, PinBranch},
     st \in LeftStates}
Workdirs0 ==
  {w \in [Dirs -> UNION {LeftBehind(d) : d \in Dirs}] :
     /\ \A d \in Dirs : w[d] \in LeftBehind(d)
     /\ Cardinality({d \in Dirs : w[d] # None}) <= 1}

InitRepos ==
  /\ rootInputs = <<>>
  /\ expired = FALSE
  /\ nixDisk = <<>>
  /\ diskAtStart = <<>>
  /\ run = 1
  /\ Locals0
  /\ repos \in RepoLists
  /\ dryRun \in BOOLEAN
  /\ platform \in Platforms
  /\ token \in BOOLEAN
  /\ repoIdx = 1
  /\ upc = "entry"
  /\ automerge = FALSE
  /\ workdirs \in Workdirs0
  /\ lastClone = NoClone
  /\ calls = <<>>
  /\ codes = <<>>
  /\ success = 0
  /\ skip = 0
  /\ fail = 0
  /\ exitCode = "none"

SpecRepos == InitRepos /\ [][NextRepos]_vars

\* ------------------------------------------------------------------ declarations, as the claims speak of them
\* The declaration of an input is what Nix reads as such: the input name at
\* the start of a line, indented by spaces only, followed by `.url = "...";`
\* (inline shape) or by `= {` up to its own closing `};` (block shape).
RECURSIVE SkipSP(_, _)
SkipSP(t, i) == IF i > Len(t) \/ t[i] # SP THEN i ELSE SkipSP(t, i + 1)

InputNames == {NameA, NameB}

RECURSIVE LineCount(_)
LineCount(t) ==
  IF t = <<>> THEN 0 ELSE (IF t[1] = NL THEN 1 ELSE 0) + LineCount(Tail(t))

\* the url literal assigned at position p (`url = "literal"`), <<"?">> if none
LiteralAt(t, p) ==
  LET k == SkipWS(t, p + 1)
      m == SkipWS(t, k + 1)
  IN IF AtomAt(t, p, "url") /\ AtomAt(t, k, "=") /\ AtomAt(t, m, Q)
        /\ ClosingQuotes(t, m) # {}
     THEN SubSeq(t, m + 1, Min(ClosingQuotes(t, m)) - 1) ELSE <<"?">>

InlineDeclStarts(t, n) ==
  {i \in 1..Len(t) : AtLineStart(t, i) /\ LitAt(t, SkipSP(t, i), n \o <<".", "url">>)}
InlineDeclEnd(t, i) == EndOfLine(t, i)
InlineDeclUrl(t, n, i) == LiteralAt(t, SkipSP(t, i) + Len(n) + 1)

BlockOpenAt(t, n, i) ==
  LET k == SkipWS(t, SkipSP(t, i) + Len(n)) IN
  IF AtLineStart(t, i) /\ LitAt(t, SkipSP(t, i), n) /\ AtomAt(t, k, "=")
     /\ AtomAt(t, SkipWS(t, k + 1), "{")
  THEN SkipWS(t, k + 1) ELSE 0
BlockClosings(t, from) == {c \in from..Len(t) : LitAt(t, c, <<"}", ";">>)}
BlockDeclStarts(t, n) ==
  {i \in 1..Len(t) : BlockOpenAt(t, n, i) # 0 /\ BlockClosings(t, BlockOpenAt(t, n, i)) # {}}
BlockDeclEnd(t, n, i) == Min(BlockClosings(t, BlockOpenAt(t, n, i))) + 2
BlockUrlPositions(t, n, i) ==
  {p \in BlockOpenAt(t, n, i)..(BlockDeclEnd(t, n, i) - 1) :
     AtomAt(t, p, "url") /\ LiteralAt(t, p) # <<"?">>}
BlockDeclUrl(t, n, i) == LiteralAt(t, Min(BlockUrlPositions(t, n, i)))

\* the url literals of the declarations of input n in t
DeclUrls(t, n) ==
  {InlineDeclUrl(t, n, i) : i \in InlineDeclStarts(t, n)}
  \cup {BlockDeclUrl(t, n, i) :
          i \in {b \in BlockDeclStarts(t, n) : BlockUrlPositions(t, n, b) # {}}}

\* the texts of the declarations of input n in t
DeclTexts(t, n) ==
  {SubSeq(t, i, InlineDeclEnd(t, i) - 1) : i \in InlineDeclStarts(t, n)}
  \cup {SubSeq(t, i, BlockDeclEnd(t, n, i) - 1) : i \in BlockDeclStarts(t, n)}

Canonical(input) == buildPinnedUrl(input).v
\* the input processed by the latest iteration of the loop
LastInput == pinnableInputs[IF pc = "thrown" THEN idx ELSE idx - 1]
Rewrote == last.outcome = "rewritten" /\ pc # "thrown"
InfoLogs == {k \in 1..Len(log) : log[k].level = "info"}

\* ------------------------------------------------------------------ C1
\* C1: with the clock before the cutoff, the second of two invocations in
\* sequence on the same checkout returns false, writes nothing and leaves
\* flake.nix as the first invocation left it.
C1_SecondRunChangesNothing ==
  (run = 2 /\ pc = "returned" /\ ~expired) =>
    (result = "false" /\ writes = 0 /\ nixDisk = diskAtStart)

\* ------------------------------------------------------------------ C2
\* C2: when an invocation has returned, every candidate whose declaration is
\* present in flake.nix has the canonical pinned identifier as the url literal
\* of each of its own declarations.
C2_DeclarationsPinned ==
  (pc = "returned" /\ ~expired) =>
    \A k \in 1..Len(pinnableInputs) :
      DeclUrls(nixDisk, pinnableInputs[k].name) \subseteq {Canonical(pinnableInputs[k])}

\* ------------------------------------------------------------------ C3
\* C3: the iteration that rewrites one candidate leaves the declarations of
\* every other input name as they were.
C3_OtherDeclarationsUntouched ==
  Rewrote =>
    \A n \in InputNames \ {LastInput.name} :
      DeclTexts(flakeNixContent, n) = DeclTexts(beforeContent, n)

\* ------------------------------------------------------------------ C4
RECURSIVE LineStartBefore(_, _)
LineStartBefore(t, p) == IF AtLineStart(t, p) THEN p ELSE LineStartBefore(t, p - 1)

\* the first nested `url = "...";` of a block
FirstUrlLine(block) ==
  Min({p \in 1..Len(block) : AtomAt(block, p, "url") /\ UrlLineEnd(block, p) # 0})

\* the block with exactly its first nested url line replaced by the annotation
\* line and the pinned url line, both at the indentation of that line
BlockWithUrlLinePinned(block, input) ==
  LET p == FirstUrlLine(block)
      ls == LineStartBefore(block, p)
      lineIndent == SubSeq(block, ls, SkipSP(block, ls) - 1)
  IN SubSeq(block, 1, ls - 1)
       \o buildRenovateComment(input, lineIndent).v \o <<NL>>
       \o SubSeq(block, ls, p - 1) \o UrlAssignment(Canonical(input))
       \o SubSeq(block, UrlLineEnd(block, p), Len(block))

\* C4: a rewrite in block shape replaces exactly the first nested url line of
\* the matched block by the annotation line followed by the pinned url line;
\* every other line of the block and all text around the block is unchanged.
C4_BlockRewriteExact ==
  (Rewrote /\ last.isBlockFormat) =>
    flakeNixContent =
      Splice(beforeContent, last.match.index, Len(last.match.text),
             BlockWithUrlLinePinned(last.match.text, LastInput))

\* ------------------------------------------------------------------ C5
\* the text with the first declaration line of the input replaced by the
\* annotation line and the pinned declaration, both at its indentation
InlineDeclPinned(t, input) ==
  LET i == Min(InlineDeclStarts(t, input.name))
      lineIndent == SubSeq(t, i, SkipSP(t, i) - 1)
  IN SubSeq(t, 1, i - 1)
       \o buildRenovateComment(input, lineIndent).v \o <<NL>>
       \o lineIndent \o input.name \o <<".">> \o UrlAssignment(Canonical(input))
       \o SubSeq(t, InlineDeclEnd(t, i), Len(t))

\* C5: a rewrite in inline shape replaces exactly the declaration line by the
\* annotation line and the pinned declaration; the buffer gains one line and
\* everything before and after the declaration line is unchanged.
C5_InlineRewriteExact ==
  (Rewrote /\ ~last.isBlockFormat) =>
    /\ flakeNixContent = InlineDeclPinned(beforeContent, LastInput)
    /\ LineCount(flakeNixContent) = LineCount(beforeContent) + 1

\* ------------------------------------------------------------------ C6
AllPinnedAtStart ==
  \A k \in 1..Len(pinnableInputs) :
    Canonical(pinnableInputs[k]) \in DeclUrls(diskAtStart, pinnableInputs[k].name)

\* C6: if flake.nix already holds, for every candidate, its declaration with
\* the canonical pinned URL, the invocation returns false, writes nothing and
\* makes no info-level log call, whatever else the file contains.
C6_AlreadyPinnedNoOp ==
  (pc = "returned" /\ pinnableInputs # <<>> /\ AllPinnedAtStart) =>
    (result = "false" /\ writes = 0 /\ InfoLogs = {})

\* ------------------------------------------------------------------ C7
\* C7: flake.nix is written at most once per invocation and only after the
\* loop; the invocation returns true exactly when it wrote; after false the
\* file is as it was, after true the file holds the buffer, which differs from
\* what was read.
C7_WriteOnceTruthfulReturn ==
  /\ writes <= 1
  /\ (writes = 1 => (pc = "returned" /\ idx > Len(pinnableInputs)))
  /\ (pc = "returned" => (result = "true" <=> writes = 1))
  /\ (pc \in {"start", "readNix", "loop"} => nixDisk = diskAtStart)
  /\ (result = "false" => nixDisk = diskAtStart)
  /\ (result = "true" => (nixDisk = flakeNixContent /\ nixDisk # beforeFix))

C7_Witness == pc = "returned" /\ result = "true" /\ writes = 1 /\ idx > 1

\* ------------------------------------------------------------------ C8
\* C8: when the invocation throws before its final write, flake.nix on disk is
\* what it was when the invocation started.
C8_NoPartialPersistence ==
  (pc = "thrown" /\ err # "flake.nix write") => nixDisk = diskAtStart

\* candidate idx throws after an earlier candidate changed the buffer
C8_Witness ==
  pc = "thrown" /\ err = "input" /\ idx >= 2 /\ hasChanges
    /\ flakeNixContent # nixDisk

\* ------------------------------------------------------------------ C9
\* C9: the invocation throws only for a failure to read flake.lock, to read
\* or write flake.nix, or for the expired migration; no lock entry makes it
\* throw.
C9_OnlyFatalConditionsThrow ==
  pc = "thrown" =>
    err \in {"flake.lock", "flake.nix read", "flake.nix write", "migration expired"}

\* ------------------------------------------------------------------ C10
\* C10 as stated: past the cutoff every invocation, whatever the lockfile,
\* ends by throwing.
C10_ExpiredAlwaysThrows == (expired /\ pc \notin {"start", "readNix"}) => pc = "thrown"

\* C10 amended: past the cutoff an invocation that extracted at least one
\* candidate never reaches the loop: it throws (the expired-migration error
\* unless reading a file failed first) with the buffer as read; an invocation
\* with no candidate returns false; flake.nix is never written and nothing is
\* logged.
C10_ExpiredFailsFast ==
  expired =>
    /\ pc # "loop"
    /\ writes = 0 /\ nixDisk = diskAtStart
    /\ ~hasChanges /\ log = <<>>
    /\ (pc = "returned" => (pinnableInputs = <<>> /\ result = "false"))
    /\ (pc = "thrown" => err \in {"flake.lock", "flake.nix read", "migration expired"})
    /\ (err = "migration expired" => (pinnableInputs # <<>> /\ flakeNixContent = nixDisk))

C10_Witness == expired /\ pc = "thrown" /\ err = "migration expired"

\* ------------------------------------------------------------------ C11
\* C11: a candidate is skipped as already pinned only if a declaration of
\* that very input (its inline line or its block) has the canonical
\* identifier as its url literal.
C11_SkippedOnlyIfOwnDeclarationPinned ==
  last.outcome = "alreadyPinned" =>
    Canonical(LastInput) \in DeclUrls(beforeContent, LastInput.name)

\* ------------------------------------------------------------------ C12
\* an optional string that is present and not ""
NonEmpty(o) == o # <<>> /\ o[1] # <<>>

\* the root input resolves a node that has a `locked` record with type and
\* rev, and owner and repo (github, gitlab) or url (git)
Eligible(entry) ==
  LET node == NodeOf(entry.ref) IN
  /\ node # <<>>
  /\ node[1].locked # <<>>
  /\ LET locked == node[1].locked[1] IN
     /\ NonEmpty(locked.type)
     /\ NonEmpty(locked.rev)
     /\ \/ /\ locked.type[1] \in {<<"github">>, <<"gitlab">>}
           /\ NonEmpty(locked.owner)
           /\ NonEmpty(locked.repo)
        \/ /\ locked.type[1] = <<"git">>
           /\ NonEmpty(locked.url)

NamesOf(entries) == [k \in 1..Len(entries) |-> entries[k].name]
Extracted == pc # "start" /\ err # "flake.lock"

\* C12: the candidates are exactly the eligible root inputs, in the order of
\* root's input mapping, each name at most once.
C12_ExtractionIsOrderedFilter ==
  Extracted =>
    /\ NamesOf(pinnableInputs) = NamesOf(SelectSeq(rootInputs, Eligible))
    /\ \A i, j \in 1..Len(pinnableInputs) :
         i # j => pinnableInputs[i].name # pinnableInputs[j].name

\* the first root input is skipped and the second is extracted
C12_Witness ==
  /\ Extracted
  /\ Len(rootInputs) = 2
  /\ Len(pinnableInputs) = 1
  /\ pinnableInputs[1].name = rootInputs[2].name

\* ------------------------------------------------------------------ C13
\* C13: a github or gitlab candidate has a non-empty owner, repo and rev, a
\* gitlab candidate a non-empty host and a github candidate none; a git
\* candidate has a non-empty url and rev.
C13_CandidateFields ==
  Extracted =>
    \A k \in 1..Len(pinnableInputs) :
      LET c == pinnableInputs[k] IN
      /\ c.rev # <<>>
      /\ c.type \in {<<"github">>, <<"gitlab">>} => (NonEmpty(c.owner) /\ NonEmpty(c.repo))
      /\ c.type = <<"gitlab">> => NonEmpty(c.host)
      /\ c.type = <<"github">> => c.host = <<>>
      /\ c.type = <<"git">> => NonEmpty(c.url)

\* ------------------------------------------------------------------ C14
Candidates(type) ==
  {pinnableInputs[k] : k \in {j \in 1..Len(pinnableInputs) : pinnableInputs[j].type = <<type>>}}
\* originalUrl ?? url
BaseUrl(c) == IF c.originalUrl # <<>> THEN c.originalUrl[1] ELSE c.url[1]
\* git+ in front exactly when the original type is git and the url starts
\* with http:// or https://
Prefixed(c, u) ==
  IF c.originalType = <<<<"git">>>> /\ u # <<>> /\ u[1] \in {"http://", "https://"}
  THEN <<"git+">> \o u ELSE u
\* u up to its first ?
UpToQuery(u) ==
  LET qs == {i \in 1..Len(u) : u[i] = "?"} IN
  SubSeq(u, 1, (IF qs = {} THEN Len(u) ELSE Min(qs) - 1))

\* C14: the canonical identifier of a git candidate is its base url
\* (originalUrl ?? url), prefixed with git+ exactly when the original type
\* is git and the url starts with http:// or https://, cut at its first ?,
\* followed by ?rev=<rev>.
C14_GitCanonicalIdentifier ==
  Extracted =>
    \A c \in Candidates("git") :
      buildPinnedUrl(c) =
        [thrown |-> FALSE,
         v |-> UpToQuery(Prefixed(c, BaseUrl(c))) \o <<"?", "rev=">> \o c.rev]

\* ------------------------------------------------------------------ C15
ForgeCandidates == Candidates("github") \cup Candidates("gitlab")

\* C15: the canonical identifier of a github or gitlab candidate is
\* <type>:<owner>/<repo>/<rev>, whatever its host and original ref are.
C15_ForgeCanonicalIdentifier ==
  Extracted =>
    \A c \in ForgeCandidates :
      /\ buildPinnedUrl(c) =
           [thrown |-> FALSE,
            v |-> <<IF c.type = <<"github">> THEN "github:" ELSE "gitlab:">>
                    \o c.owner[1] \o <<"/">> \o c.repo[1] \o <<"/">> \o c.rev]
      /\ \A h, r \in {<<>>, <<<<>>>>, <<<<"x">>>>} :
           buildPinnedUrl([c EXCEPT !.host = h, !.originalRef = r]) = buildPinnedUrl(c)

\* a gitlab candidate with a host and an original ref has been rewritten to
\* its canonical identifier
C15_Witness ==
  /\ Rewrote
  /\ LastInput.type = <<"gitlab">>
  /\ NonEmpty(LastInput.host)
  /\ NonEmpty(LastInput.originalRef)
  /\ Canonical(LastInput) \in DeclUrls(flakeNixContent, LastInput.name)

\* ------------------------------------------------------------------ C16
\* tokens separated by one space
RECURSIVE Spaced(_)
Spaced(tokens) ==
  IF tokens = <<>> THEN <<>>
  ELSE tokens[1] \o (IF Len(tokens) > 1 THEN <<SP>> ELSE <<>>) \o Spaced(Tail(tokens))
BranchToken(c) ==
  IF NonEmpty(c.originalRef) THEN << <<"branch=">> \o c.originalRef[1] >> ELSE <<>>
DepNameToken(c) == << <<"depName=">> \o c.owner[1] \o <<"/">> \o c.repo[1] >>
AnnotationTokens(c) ==
  IF c.type = <<"github">> THEN DepNameToken(c) \o BranchToken(c)
  ELSE IF c.type = <<"gitlab">>
       THEN DepNameToken(c) \o BranchToken(c) \o << <<"host=">> \o c.host[1] >>
       ELSE << <<"url", "=">> \o Prefixed(c, BaseUrl(c)) >> \o BranchToken(c)
Indents == {<<>>, <<SP>>, <<SP, SP>>}

\* C16: the annotation of a candidate is the indent, "# " and the tokens of
\* its kind separated by single spaces: depName then branch (github),
\* depName, branch, host (gitlab), url then branch (git); branch only when
\* originalRef is not empty; no renovate: token.
C16_AnnotationFormat ==
  Extracted =>
    \A k \in 1..Len(pinnableInputs) : \A indent \in Indents :
      LET c == pinnableInputs[k] IN
      buildRenovateComment(c, indent) =
        [thrown |-> FALSE, v |-> indent \o <<"#", SP>> \o Spaced(AnnotationTokens(c))]

\* ------------------------------------------------------------------ C17
\* an iteration of the loop over the candidates is about to run
AtCandidate == pc = "loop" /\ idx <= Len(pinnableInputs)
PinnedLog(c) == LogEntry("info", "Pinned flake input", c.name, c.rev)
PinnedLogs == {k \in 1..Len(log) : log[k].msg = "Pinned flake input"}

NotLocated(content, name) ==
  ~ExecSimple(content, name).found /\ ~ExecBlock(content, name).found

\* C18: the iteration of a candidate whose declaration neither the inline
\* nor the block pattern locates leaves the buffer and the changed flag as
\* they were, logs one warning naming the input, raises no error and goes on
\* to the next candidate.
C18_NotFoundIsRecoverable ==
  [][(AtCandidate /\ NotLocated(flakeNixContent, pinnableInputs[idx].name)) =>
       /\ flakeNixContent' = flakeNixContent
       /\ hasChanges' = hasChanges
       /\ log' = Append(log, LogEntry("warn", "Input not found in flake.nix, skipping",
                                      pinnableInputs[idx].name, <<>>))
       /\ pc' = "loop"
       /\ idx' = idx + 1]_vars

\* ------------------------------------------------------------------ C19
\* C19: when the lock file yields no candidate the invocation returns
\* false; flake.nix is neither read nor written, so no migration
\* substitution is applied to it.
C19_ZeroCandidatesReturnFalse ==
  (Extracted /\ pinnableInputs = <<>>) =>
    /\ pc = "returned"
    /\ result = "false"
    /\ writes = 0
    /\ nixDisk = diskAtStart
    /\ beforeFix = <<>>
    /\ flakeNixContent = <<>>
    /\ log = <<>>

\* a lock file with an input but no candidate, and a flake.nix the migration
\* substitution would have changed
C19_Witness ==
  /\ pc = "returned"
  /\ rootInputs # <<>>
  /\ pinnableInputs = <<>>
  /\ Migrate(nixDisk) # nixDisk

\* ------------------------------------------------------------------ C20
RefOfName(name) ==
  LET k == CHOOSE j \in 1..Len(rootInputs) : rootInputs[j].name = name
  IN rootInputs[k].ref

\* C20: the candidate of a git node with locked {url, rev, ref} and original
\* {type, url, ref} has name, type git, rev, url = locked.url, originalUrl =
\* original.url and originalRef = original.ref; owner, repo, host and every
\* other field are undefined.
C20_GitCandidateRecord ==
  Extracted =>
    \A c \in Candidates("git") :
      RefOfName(c.name) = "gitFull" =>
        c = [name |-> c.name, type |-> <<"git">>, rev |-> <<"rev1">>,
             owner |-> <<>>, repo |-> <<>>, host |-> <<>>,
             url |-> << <<"https://", "h/p">> >>,
             originalUrl |-> << <<"git+", "https://", "h/p">> >>,
             originalType |-> <<>>,
             originalRef |-> << <<"main">> >>]

\* ------------------------------------------------------------------ C21
\* C21: a DELETE request for the branch is sent only right after
\* branchExists returned true, so only for a branch that exists on the
\* remote, whichever adapter is in use.
C21_DeleteOnlyIfBranchExists ==
  \A k \in 1..Len(calls) :
    calls[k].op = "DELETE" =>
      /\ calls[k].flag
      /\ k > 1
      /\ calls[k - 1] = Call("branchExists", TRUE)

\* ------------------------------------------------------------------ C22
\* cloneRepo is about to be called on a directory that holds a clone of the
\* repository
ReusableClone ==
  /\ upc = "clone"
  /\ workdirs[RepoDir] # <<>>
  /\ workdirs[RepoDir][1].origin = Repo

\* C22: when cloneRepo, called on a directory that already holds a clone of
\* the repository, returns true, the checkout is on the default branch, at
\* the commit of the remote default branch, with no modified and no
\* untracked file.
C22_ReuseResetsToDefaultBranch ==
  [][(ReusableClone /\ lastClone'.ok) =>
       workdirs'[RepoDir] = <<Clone(Repo, DefaultBranch, "remote", "clean", FALSE)>>]_vars

\* ------------------------------------------------------------------ C23
MigrationLogged ==
  \E k \in 1..Len(log) : log[k].msg = "Fixed existing renovate: prefixes in comments"

StripPrefix(line) ==
  LET j == SkipSP(line, 1)
      k == SkipSP(line, j + 1)
  IN IF AtomAt(line, j, "#") /\ AtomAt(line, k, "renovate:") /\ AtomAt(line, k + 1, SP)
     THEN SubSeq(line, 1, k - 1) \o SubSeq(line, SkipSP(line, k + 1), Len(line))
     ELSE line

RECURSIVE StripPrefixes(_)
\* StripPrefix applied to every line of t
StripPrefixes(t) ==
  IF t = <<>> THEN <<>>
  ELSE LET e == EndOfLine(t, 1) IN
       StripPrefix(SubSeq(t, 1, e - 1))
         \o (IF e <= Len(t) THEN <<NL>> \o StripPrefixes(SubSeq(t, e + 1, Len(t))) ELSE <<>>)

\* the migration substitution has just been applied to the buffer
Migrated == pc = "loop" /\ idx = 1

\* C24: the migration substitution changes the buffer line by line: a
\* comment line that carries the deprecated prefix loses the prefix token
\* and the white space after it, every other line is as it was, and the
\* number of lines is unchanged.
C24_MigrationTouchesCommentLinesOnly ==
  Migrated =>
    /\ flakeNixContent = StripPrefixes(beforeFix)
    /\ LineCount(flakeNixContent) = LineCount(beforeFix)

\* ------------------------------------------------------------------ C25
\* the texts of the block declarations of input n in t
BlockTexts(t, n) == {SubSeq(t, i, BlockDeclEnd(t, n, i) - 1) : i \in BlockDeclStarts(t, n)}
\* what follows the first inline declaration line of input n in t
AfterFirstInline(t, n) == SubSeq(t, EndOfLine(t, Min(InlineDeclStarts(t, n))), Len(t))
\* the loop is at a candidate that t declares both inline and as a block
BothDeclared(t) ==
  /\ AtCandidate
  /\ InlineDeclStarts(t, pinnableInputs[idx].name) # {}
  /\ BlockDeclStarts(t, pinnableInputs[idx].name) # {}

\* C25: the inline pattern is tried first and the block pattern only when
\* the inline pattern has no match: an iteration that rewrites a candidate
\* declared both inline and as a block rewrites the first inline line only
\* (the text after that line and every block of the input are byte-identical
\* afterwards), and an iteration that rewrites a block had no inline line to
\* match.
C25_InlineBeforeBlock ==
  [][LET n == pinnableInputs[idx].name IN
     /\ (BothDeclared(flakeNixContent) /\ flakeNixContent' # flakeNixContent) =>
          /\ ~last'.isBlockFormat
          /\ BlockTexts(flakeNixContent', n) = BlockTexts(flakeNixContent, n)
          /\ AfterFirstInline(flakeNixContent', n) = AfterFirstInline(flakeNixContent, n)
          /\ Cardinality(InlineDeclStarts(flakeNixContent', n))
               = Cardinality(InlineDeclStarts(flakeNixContent, n))
     /\ (AtCandidate /\ flakeNixContent' # flakeNixContent /\ last'.isBlockFormat) =>
          InlineDeclStarts(flakeNixContent, n) = {}]_vars
\* a candidate declared as a block and, after it, inline has been rewritten
C25_Witness ==
  /\ Rewrote /\ ~last.isBlockFormat
  /\ beforeContent # flakeNixContent
  /\ BlockDeclStarts(beforeContent, LastInput.name) # {}
  /\ InlineDeclStarts(beforeContent, LastInput.name) # {}
  /\ Min(BlockDeclStarts(beforeContent, LastInput.name))
       < Min(InlineDeclStarts(beforeContent, LastInput.name))

\* ------------------------------------------------------------------ C26
\* the requests that change what the remote or the forge shows
RemoteMutations == {"pushBranch", "createPullRequest", "closePullRequest", "enableAutomerge", "DELETE"}

\* C26: with --dry-run no run of updateRepo pushes a branch, creates,
\* closes or merges a pull request, or deletes a remote branch.
C26_DryRunMutatesNothingRemote ==
  dryRun => \A k \in 1..Len(calls) : calls[k].op \notin RemoteMutations

\* ------------------------------------------------------------------ C27
\* runBatchUpdate has ended, by returning or by rejecting
BatchEnded == upc \in {"done", "rejected"}

\* C27: runBatchUpdate processes every repository of its list once, in
\* order, and counts it in exactly one of success, skip and fail, whatever
\* happened to the repositories before it, a fatal error thrown by the
\* pinning pass included; at the summary success + skip + fail is the
\* length of the list and the return code is 1 exactly when fail > 0.
C27_BatchIsolationAndTally ==
  BatchEnded =>
    /\ upc = "done"
    /\ Len(codes) = Len(repos)
    /\ success + skip + fail = Len(repos)
    /\ exitCode = (IF fail > 0 THEN 1 ELSE 0)

\* ------------------------------------------------------------------ C28
\* request k of the current run comes after a push that succeeded
AfterPush(k) == \E j \in 1..(k - 1) : calls[j] = Call("pushBranch", TRUE)
\* before request k and after the push, the pull request of the pin branch
\* was looked up, with the answer `found`
LookedUp(k, found) ==
  \E j \in 1..(k - 1) :
    /\ calls[j] = Call("findExistingPullRequest", found)
    /\ AfterPush(j)

\* C28: in a run of updateRepo createPullRequest is called at most once,
\* only after pushBranch succeeded and only when findExistingPullRequest
\* found no open pull request; enableAutomerge is called only after that
\* push, only when repoConfig.automerge is true and a pull request number,
\* of the existing or of the created pull request, is known.
C28_ForgeWritesFollowPush ==
  \A k \in 1..Len(calls) :
    /\ calls[k].op = "createPullRequest" =>
         /\ AfterPush(k)
         /\ LookedUp(k, FALSE) /\ ~LookedUp(k, TRUE)
         /\ \A j \in 1..Len(calls) : calls[j].op = "createPullRequest" => j = k
    /\ calls[k].op = "enableAutomerge" =>
         /\ AfterPush(k)
         /\ automerge
         /\ LookedUp(k, TRUE) \/ \E j \in 1..(k - 1) : calls[j] = Call("createPullRequest", TRUE)
\* a run pushed, found no pull request, created one and enabled automerge
C28_Witness ==
  /\ Len(calls) >= 4
  /\ SubSeq(calls, Len(calls) - 3, Len(calls))
       = <<Call("pushBranch", TRUE), Call("findExistingPullRequest", FALSE),
           Call("createPullRequest", TRUE), Call("enableAutomerge", TRUE)>>
  /\ codes # <<>> /\ codes[Len(codes)] = 0

\* ------------------------------------------------------------------ C29
\* the positions of the requests named op in the log cs
CallsOf(cs, op) == {k \in 1..Len(cs) : cs[k].op = op}

\* C29: when pinFlakeInputs returned false, updateRepo commits and pushes
\* nothing, looks up the pull request of the pin branch, closes it if there
\* is one, then asks for the deletion of the pin branch, and returns 2, in
\* that order and on every such run.
C29_NothingToPinCleanup ==
  [][upc = "cleanup" =>
       /\ codes' = Append(codes, 2)
       /\ CallsOf(calls', "pushBranch") = {}
       /\ calls'[1].op = "findExistingPullRequest"
       /\ CallsOf(calls', "closePullRequest") = (IF calls'[1].flag THEN {2} ELSE {})
       /\ CallsOf(calls', "deleteBranch") = (IF calls'[1].flag THEN {3} ELSE {2})]_vars

\* ------------------------------------------------------------------ C30
\* C30: makeRepoWorkdir maps distinct repository identifiers to distinct
\* directories, so the reuse path of cloneRepo (fetch, reset and clean in
\* an existing directory) never works on a checkout that was cloned from
\* another repository.
C30_WorkdirsDoNotCollide ==
  (lastClone.reused /\ lastClone.ok) =>
    /\ lastClone.origin = lastClone.repo
    /\ \A r \in RepoIds : makeRepoWorkdir(r) = makeRepoWorkdir(lastClone.repo) => r = lastClone.repo

====
